---- MODULE Spec2Model ----
(***************************************************************************)
(* docs/conf.py of pathmaster: the Sphinx configuration module.            *)
(*                                                                         *)
(* The module is executed top to bottom by the documentation builder (the  *)
(* host).  Each top-level statement binds one name in the module           *)
(* namespace.  After the load has completed the host may read the          *)
(* configuration values and may invoke the setup(app) callback, which      *)
(* issues two calls on the host application handle.  The host and the      *)
(* import system are external: each import and each host call either       *)
(* succeeds or raises, and the model takes both outcomes.                  *)
(***************************************************************************)
EXTENDS Integers, Sequences, FiniteSets, TLC

\* ------------------------------------------------------------------ bounds

\* Invocations of setup the host makes in one run.
MaxSetupCalls == 3

\* Host application handles.
Apps == {"app1", "app2"}

\* ------------------------------------------------- values bound by the file

ModuleObject(n) == [kind |-> "module", name |-> n]

\* conf.py:1
os == ModuleObject("os")

\* conf.py:2
sys == ModuleObject("sys")

\* conf.py:3
AutoStructify == [kind |-> "class", name |-> "recommonmark.transform.AutoStructify"]

\* conf.py:6-10
project == "Pathmaster"

copyright == "2025, Justin Wayne Liles"

author == "Justin Wayne Liles"

version == "0.2.7"

release == "0.2.7"

\* Variant: the list without the Markdown extension.
extensions_WithoutRecommonmark ==
    << "sphinx.ext.autodoc", "sphinx.ext.viewcode", "sphinx.ext.napoleon" >>

\* conf.py:13-18
extensions ==
    << "recommonmark", "sphinx.ext.autodoc", "sphinx.ext.viewcode", "sphinx.ext.napoleon" >>

\* conf.py:20-21
templates_path == << "_templates" >>

exclude_patterns == << "_build", "Thumbs.db", ".DS_Store" >>

\* conf.py:24-25
html_theme == "sphinx_rtd_theme"

html_static_path == << "_static" >>

\* conf.py:28: the function object the def statement binds
SetupFunction == [kind |-> "function", name |-> "setup"]

\* conf.py:36-39
source_suffix == (".rst" :> "restructuredtext") @@ (".md" :> "markdown")

\* conf.py:41
master_doc == "index"

\* conf.py:29-32: the arguments of app.add_config_value
recommonmark_config ==
    ("auto_toc_tree_section" :> "Contents") @@ ("enable_eval_rst" :> TRUE)

\* Variant: the value registered without the rebuild flag.
AddConfigValueArgs_NoRebuild == << "recommonmark_config", recommonmark_config, FALSE >>

AddConfigValueArgs == << "recommonmark_config", recommonmark_config, TRUE >>

\* Variant: the transform registered before the configuration value.
SetupBody_TransformFirst == << "add_transform", "add_config_value" >>

\* conf.py:29-33: the statements of the body of setup, in order
SetupBody == << "add_config_value", "add_transform" >>

\* ------------------------------------------------------ the file's statements

Stmt(l, k, n, v) == [line |-> l, kind |-> k, name |-> n, value |-> v]

\* Variant: line 10 assigns version a second time instead of release.
Program_VersionTwice ==
    << Stmt(1, "import", "os", os),
       Stmt(2, "import", "sys", sys),
       Stmt(3, "import", "AutoStructify", AutoStructify),
       Stmt(6, "assign", "project", project),
       Stmt(7, "assign", "copyright", copyright),
       Stmt(8, "assign", "author", author),
       Stmt(9, "assign", "version", version),
       Stmt(10, "assign", "version", release),
       Stmt(13, "assign", "extensions", extensions),
       Stmt(20, "assign", "templates_path", templates_path),
       Stmt(21, "assign", "exclude_patterns", exclude_patterns),
       Stmt(24, "assign", "html_theme", html_theme),
       Stmt(25, "assign", "html_static_path", html_static_path),
       Stmt(28, "def", "setup", SetupFunction),
       Stmt(36, "assign", "source_suffix", source_suffix),
       Stmt(41, "assign", "master_doc", master_doc) >>

\* The top-level statements of conf.py in file order.
Program ==
    << Stmt(1, "import", "os", os),
       Stmt(2, "import", "sys", sys),
       Stmt(3, "import", "AutoStructify", AutoStructify),
       Stmt(6, "assign", "project", project),
       Stmt(7, "assign", "copyright", copyright),
       Stmt(8, "assign", "author", author),
       Stmt(9, "assign", "version", version),
       Stmt(10, "assign", "release", release),
       Stmt(13, "assign", "extensions", extensions),
       Stmt(20, "assign", "templates_path", templates_path),
       Stmt(21, "assign", "exclude_patterns", exclude_patterns),
       Stmt(24, "assign", "html_theme", html_theme),
       Stmt(25, "assign", "html_static_path", html_static_path),
       Stmt(28, "def", "setup", SetupFunction),
       Stmt(36, "assign", "source_suffix", source_suffix),
       Stmt(41, "assign", "master_doc", master_doc) >>

\* The position after the last statement: the module is loaded.
Loaded == Len(Program) + 1

\* ------------------------------------------------------------------- state

VARIABLES
    pc,          \* index into Program of the next statement to execute
    ns,          \* the module namespace: name -> value
    binds,       \* name -> how many times a statement has bound it
    frame,       \* the running invocation of setup (pc indexes SetupBody), or NoFrame
    calls,       \* invocations of setup started so far
    outcomes,    \* per invocation: the handle, how it ended, the registry at entry
    log,         \* per handle: the host calls issued on it, in order
    config,      \* per handle: the host's registry of configuration values
    transforms,  \* per handle: the host's registry of transforms
    raised,      \* the exceptions that left the file, in order
    lastRead     \* the last configuration value the host read

vars == << pc, ns, binds, frame, calls, outcomes, log, config, transforms, raised, lastRead >>

NoFrame == [app |-> "none", pc |-> 0, call |-> 0]

LoadFailed == \E i \in 1..Len(raised) : raised[i].during = "load"

Init ==
    /\ pc = 1
    /\ ns = << >>
    /\ binds = << >>
    /\ frame = NoFrame
    /\ calls = 0
    /\ outcomes = << >>
    /\ log = [a \in Apps |-> << >>]
    /\ config = [a \in Apps |-> << >>]
    /\ transforms = [a \in Apps |-> << >>]
    /\ raised = << >>
    /\ lastRead = [name |-> "none", value |-> "none"]

\* ------------------------------------------------------------ module load

\* Binding a name at module level: a new binding or a rebinding.
Bind(n, v) ==
    /\ ns' = (n :> v) @@ ns
    /\ binds' = (n :> (IF n \in DOMAIN binds THEN binds[n] + 1 ELSE 1)) @@ binds

\* conf.py:1-3.  The import system resolves the module and binds the name, or
\* raises ImportError, which leaves the file and ends the load.
ExecImport ==
    /\ pc < Loaded
    /\ ~LoadFailed
    /\ Program[pc].kind = "import"
    /\ \E found \in BOOLEAN :
          IF found
          THEN /\ Bind(Program[pc].name, Program[pc].value)
               /\ pc' = pc + 1
               /\ UNCHANGED raised
          ELSE /\ raised' = Append(raised, [origin |-> "import system", during |-> "load",
                                            line |-> Program[pc].line, call |-> 0])
               /\ UNCHANGED << pc, ns, binds >>
    /\ UNCHANGED << frame, calls, outcomes, log, config, transforms, lastRead >>

\* conf.py:6-25, 36-41.  An assignment of a literal.
ExecAssign ==
    /\ pc < Loaded
    /\ ~LoadFailed
    /\ Program[pc].kind = "assign"
    /\ Bind(Program[pc].name, Program[pc].value)
    /\ pc' = pc + 1
    /\ UNCHANGED << frame, calls, outcomes, log, config, transforms, raised, lastRead >>

\* Variant: the body of setup runs at module level when the def statement is
\* executed, registering with a handle during the load.
ExecDef_RunsBody ==
    /\ pc < Loaded
    /\ ~LoadFailed
    /\ Program[pc].kind = "def"
    /\ Bind(Program[pc].name, Program[pc].value)
    /\ pc' = pc + 1
    /\ \E a \in Apps :
          /\ log' = [log EXCEPT ![a] =
                        << [call |-> 0, op |-> "add_config_value",
                            args |-> AddConfigValueArgs, ok |-> TRUE],
                           [call |-> 0, op |-> "add_transform",
                            args |-> << ns["AutoStructify"] >>, ok |-> TRUE] >>]
          /\ config' = [config EXCEPT ![a] =
                           (AddConfigValueArgs[1] :>
                               [default |-> AddConfigValueArgs[2],
                                rebuild |-> AddConfigValueArgs[3]]) @@ @]
          /\ transforms' = [transforms EXCEPT ![a] = Append(@, ns["AutoStructify"])]
    /\ UNCHANGED << frame, calls, outcomes, raised, lastRead >>

\* conf.py:28.  The def statement binds the function; its body does not run.
ExecDef ==
    /\ pc < Loaded
    /\ ~LoadFailed
    /\ Program[pc].kind = "def"
    /\ Bind(Program[pc].name, Program[pc].value)
    /\ pc' = pc + 1
    /\ UNCHANGED << frame, calls, outcomes, log, config, transforms, raised, lastRead >>

\* ----------------------------------------------------------- host actions

\* The host reads one configuration value of the loaded module.
HostRead ==
    /\ pc = Loaded
    /\ frame = NoFrame
    /\ \E n \in DOMAIN ns :
          lastRead' = [name |-> n, value |-> ns[n]]
    /\ UNCHANGED << pc, ns, binds, frame, calls, outcomes, log, config, transforms, raised >>

\* conf.py:28.  The host invokes setup(app) of the loaded module.  The
\* outcome records, for the properties only, whether the handle already held
\* the configuration value when the invocation began.
CallSetup ==
    /\ pc = Loaded
    /\ frame = NoFrame
    /\ calls < MaxSetupCalls
    /\ \E a \in Apps :
          /\ frame' = [app |-> a, pc |-> 1, call |-> calls + 1]
          /\ outcomes' = Append(outcomes,
                [app |-> a, result |-> "running",
                 prior |-> AddConfigValueArgs[1] \in DOMAIN config[a]])
    /\ calls' = calls + 1
    /\ UNCHANGED << pc, ns, binds, log, config, transforms, raised, lastRead >>

\* Variant: setup catches the exception of a host call and carries on.
Issue_Swallows(op, args, ok) ==
    /\ log' = [log EXCEPT ![frame.app] =
                  Append(@, [call |-> frame.call, op |-> op, args |-> args, ok |-> ok])]
    /\ UNCHANGED raised
    /\ IF frame.pc = Len(SetupBody)
       THEN /\ frame' = NoFrame
            /\ outcomes' = [outcomes EXCEPT ![frame.call].result = "returned"]
       ELSE /\ frame' = [frame EXCEPT !.pc = @ + 1]
            /\ UNCHANGED outcomes

\* One host call of the running invocation.  The call is logged with the
\* host's answer.  When the host raises, the exception leaves setup unhandled
\* and the invocation ends; otherwise control passes to the next statement,
\* and past the last statement setup returns.
Issue(op, args, ok) ==
    /\ log' = [log EXCEPT ![frame.app] =
                  Append(@, [call |-> frame.call, op |-> op, args |-> args, ok |-> ok])]
    /\ IF ok
       THEN /\ UNCHANGED raised
            /\ IF frame.pc = Len(SetupBody)
               THEN /\ frame' = NoFrame
                    /\ outcomes' = [outcomes EXCEPT ![frame.call].result = "returned"]
               ELSE /\ frame' = [frame EXCEPT !.pc = @ + 1]
                    /\ UNCHANGED outcomes
       ELSE /\ raised' = Append(raised, [origin |-> "host", during |-> "setup",
                                         line |-> IF op = "add_config_value" THEN 29 ELSE 33,
                                         call |-> frame.call])
            /\ frame' = NoFrame
            /\ outcomes' = [outcomes EXCEPT ![frame.call].result = "raised"]

\* Variant: setup asks the host first and skips the registration on a handle
\* that already holds the configuration value.
SetupAddConfigValue_ChecksFirst ==
    /\ frame # NoFrame
    /\ SetupBody[frame.pc] = "add_config_value"
    /\ IF AddConfigValueArgs[1] \in DOMAIN config[frame.app]
       THEN /\ frame' = [frame EXCEPT !.pc = @ + 1]
            /\ UNCHANGED << log, raised, outcomes, config >>
       ELSE \E ok \in BOOLEAN :
               /\ Issue("add_config_value", AddConfigValueArgs, ok)
               /\ IF ok
                  THEN config' = [config EXCEPT ![frame.app] =
                                     (AddConfigValueArgs[1] :>
                                         [default |-> AddConfigValueArgs[2],
                                          rebuild |-> AddConfigValueArgs[3]]) @@ @]
                  ELSE UNCHANGED config
    /\ UNCHANGED << pc, ns, binds, calls, transforms, lastRead >>

\* conf.py:29-32.  app.add_config_value('recommonmark_config', {...}, True)
SetupAddConfigValue ==
    /\ frame # NoFrame
    /\ SetupBody[frame.pc] = "add_config_value"
    /\ \E ok \in BOOLEAN :
          /\ Issue("add_config_value", AddConfigValueArgs, ok)
          /\ IF ok
             THEN config' = [config EXCEPT ![frame.app] =
                                (AddConfigValueArgs[1] :>
                                    [default |-> AddConfigValueArgs[2],
                                     rebuild |-> AddConfigValueArgs[3]]) @@ @]
             ELSE UNCHANGED config
    /\ UNCHANGED << pc, ns, binds, calls, transforms, lastRead >>

\* Variant: setup also appends to the module-level extensions list.
SetupAddTransform_AppendsExtension ==
    /\ frame # NoFrame
    /\ SetupBody[frame.pc] = "add_transform"
    /\ \E ok \in BOOLEAN :
          /\ Issue("add_transform", << ns["AutoStructify"] >>, ok)
          /\ IF ok
             THEN transforms' = [transforms EXCEPT ![frame.app] =
                                    Append(@, ns["AutoStructify"])]
             ELSE UNCHANGED transforms
    /\ ns' = [ns EXCEPT !["extensions"] = Append(@, "sphinx.ext.todo")]
    /\ UNCHANGED << pc, binds, calls, config, lastRead >>

\* conf.py:33.  app.add_transform(AutoStructify)
SetupAddTransform ==
    /\ frame # NoFrame
    /\ SetupBody[frame.pc] = "add_transform"
    /\ \E ok \in BOOLEAN :
          /\ Issue("add_transform", << ns["AutoStructify"] >>, ok)
          /\ IF ok
             THEN transforms' = [transforms EXCEPT ![frame.app] =
                                    Append(@, ns["AutoStructify"])]
             ELSE UNCHANGED transforms
    /\ UNCHANGED << pc, ns, binds, calls, config, lastRead >>

Next ==
    \/ ExecImport
    \/ ExecAssign
    \/ ExecDef
    \/ HostRead
    \/ CallSetup
    \/ SetupAddConfigValue
    \/ SetupAddTransform

Spec == Init /\ [][Next]_vars

\* The file types the host has a parser for, given the enabled extensions:
\* reStructuredText is built in, Markdown comes with recommonmark.
HostFileTypes(exts) ==
    {"restructuredtext"} \cup (IF "recommonmark" \in exts THEN {"markdown"} ELSE {})

\* -------------------------------------------------------------- properties

\* The host calls invocation c issued on handle a, in order.
CallsOf(a, c) == SelectSeq(log[a], LAMBDA e : e.call = c)

\* The accepted calls of operation op in the log of handle a.
Accepted(a, op) == SelectSeq(log[a], LAMBDA e : e.op = op /\ e.ok)

Range(f) == { f[x] : x \in DOMAIN f }

\* C1: an invocation of setup(app) that returns has issued exactly two host
\* operations, both on app: add_config_value('recommonmark_config',
\* {auto_toc_tree_section: 'Contents', enable_eval_rst: True}, True) and then
\* add_transform(AutoStructify).  It has issued nothing on another handle, and
\* the host registries hold nothing but what the accepted calls registered.
C1_SetupIssuesExactlyTwoCalls ==
    /\ \A c \in 1..Len(outcomes) :
          outcomes[c].result = "returned" =>
             LET es == CallsOf(outcomes[c].app, c) IN
             /\ Len(es) = 2
             /\ es[1].op = "add_config_value"
             /\ es[1].args = << "recommonmark_config",
                                [auto_toc_tree_section |-> "Contents",
                                 enable_eval_rst |-> TRUE],
                                TRUE >>
             /\ DOMAIN es[1].args[2] = {"auto_toc_tree_section", "enable_eval_rst"}
             /\ es[2].op = "add_transform"
             /\ es[2].args = << [kind |-> "class",
                                 name |-> "recommonmark.transform.AutoStructify"] >>
             /\ \A b \in Apps \ {outcomes[c].app} : CallsOf(b, c) = << >>
    /\ \A a \in Apps :
          /\ DOMAIN config[a] \subseteq {"recommonmark_config"}
          /\ ("recommonmark_config" \in DOMAIN config[a])
                <=> (Accepted(a, "add_config_value") # << >>)
          /\ Len(transforms[a]) = Len(Accepted(a, "add_transform"))
          /\ Len(log[a]) <= 2 * Cardinality({c \in 1..Len(outcomes) : outcomes[c].app = a})

\* C1 witness: an invocation of setup has returned.
C1_Witness ==
    \E c \in 1..Len(outcomes) : outcomes[c].result = "returned"

\* C2: once the module is loaded the configuration values equal their literal
\* values in every state, whatever the host has read and however often setup
\* has been invoked; a value the host reads is the literal value.
C2_ConfigurationNeverMutated ==
    pc = Loaded =>
       /\ ns["project"] = "Pathmaster"
       /\ ns["copyright"] = "2025, Justin Wayne Liles"
       /\ ns["author"] = "Justin Wayne Liles"
       /\ ns["version"] = "0.2.7"
       /\ ns["release"] = "0.2.7"
       /\ ns["extensions"] = << "recommonmark", "sphinx.ext.autodoc",
                                "sphinx.ext.viewcode", "sphinx.ext.napoleon" >>
       /\ ns["templates_path"] = << "_templates" >>
       /\ ns["exclude_patterns"] = << "_build", "Thumbs.db", ".DS_Store" >>
       /\ ns["html_theme"] = "sphinx_rtd_theme"
       /\ ns["html_static_path"] = << "_static" >>
       /\ ns["source_suffix"] = [x \in {".rst", ".md"} |->
                                    IF x = ".rst" THEN "restructuredtext" ELSE "markdown"]
       /\ ns["master_doc"] = "index"
       /\ lastRead.name # "none" => lastRead.value = ns[lastRead.name]

\* C2 witness: the host has read a value after setup has been invoked twice
\* and has returned.
C2_Witness ==
    /\ pc = Loaded
    /\ calls >= 2
    /\ frame = NoFrame
    /\ \E c \in 1..Len(outcomes) : outcomes[c].result = "returned"
    /\ lastRead.name = "extensions"

\* C3: every key of source_suffix ('.rst', '.md') maps to a file type the
\* host has a parser for given the extensions the file enables:
\* 'restructuredtext' is built in and 'markdown' comes with 'recommonmark',
\* which is in the extensions list.
C3_SourceSuffixConsistent ==
    "source_suffix" \in DOMAIN ns =>
       /\ DOMAIN ns["source_suffix"] = {".rst", ".md"}
       /\ "extensions" \in DOMAIN ns
       /\ \A k \in DOMAIN ns["source_suffix"] :
             ns["source_suffix"][k] \in HostFileTypes(Range(ns["extensions"]))
       /\ ns["source_suffix"][".md"] = "markdown"
       /\ "recommonmark" \in Range(ns["extensions"])

\* C3 witness: the load has bound source_suffix with its Markdown key, and the
\* host reads it.
C3_Witness ==
    /\ pc = Loaded
    /\ ".md" \in DOMAIN ns["source_suffix"]
    /\ lastRead.name = "source_suffix"

\* C4: every exception that reaches the host was raised by the import system
\* at an import statement (lines 1-3) during the load, or by the host at one
\* of the two host calls (lines 29, 33) during setup.  No failure is handled
\* in the file: a failed import ends the load at that statement, and a failed
\* host call is the last call of its invocation, which ends as raised; every
\* failure is among the exceptions that reached the host.
C4_ErrorsOnlyFromOutside ==
    /\ \A i \in 1..Len(raised) :
          \/ /\ raised[i].during = "load"
             /\ raised[i].origin = "import system"
             /\ raised[i].line \in {1, 2, 3}
             /\ pc < Loaded
             /\ Program[pc].kind = "import"
             /\ Program[pc].line = raised[i].line
             /\ i = 1 /\ Len(raised) = 1
             /\ calls = 0
          \/ /\ raised[i].during = "setup"
             /\ raised[i].origin = "host"
             /\ raised[i].line \in {29, 33}
             /\ outcomes[raised[i].call].result = "raised"
    /\ \A a \in Apps : \A j \in 1..Len(log[a]) :
          ~log[a][j].ok =>
             /\ outcomes[log[a][j].call].result = "raised"
             /\ \A k \in (j + 1)..Len(log[a]) : log[a][k].call # log[a][j].call
             /\ \E i \in 1..Len(raised) :
                   /\ raised[i].call = log[a][j].call
                   /\ raised[i].line = (IF log[a][j].op = "add_config_value" THEN 29 ELSE 33)
    /\ \A c \in 1..Len(outcomes) :
          outcomes[c].result = "raised" =>
             Cardinality({i \in 1..Len(raised) : raised[i].call = c}) = 1

\* C4 witness: the host has raised from a call of setup and the exception has
\* reached the host.
C4_Witness ==
    \E i \in 1..Len(raised) : raised[i].during = "setup" /\ raised[i].line = 33

\* C5: the loaded module binds each configuration key of the host's interface
\* exactly once, and besides them only copyright, setup, os, sys and
\* AutoStructify; no name is bound twice at any point of the load.
C5_EachNameBoundOnce ==
    /\ \A n \in DOMAIN binds : binds[n] = 1
    /\ DOMAIN binds = DOMAIN ns
    /\ pc = Loaded =>
          DOMAIN ns = {"project", "author", "version", "release", "extensions",
                       "templates_path", "html_static_path", "exclude_patterns",
                       "html_theme", "source_suffix", "master_doc"}
                      \cup {"copyright", "setup", "os", "sys", "AutoStructify"}

\* C5 witness: the load has completed.
C5_Witness ==
    pc = Loaded /\ Cardinality(DOMAIN binds) = 16

C7_ConfigBeforeTransform ==
    \A a \in Apps :
       /\ transforms[a] # << >> => "recommonmark_config" \in DOMAIN config[a]
       /\ \A j \in 1..Len(log[a]) :
             /\ log[a][j].op = "add_transform" =>
                   /\ j > 1
                   /\ log[a][j - 1].call = log[a][j].call
                   /\ log[a][j - 1].op = "add_config_value"
                   /\ log[a][j - 1].ok
             /\ (log[a][j].op = "add_config_value" /\ ~log[a][j].ok) =>
                   \A b \in Apps : \A k \in 1..Len(log[b]) :
                      log[b][k].call = log[a][j].call => log[b][k].op # "add_transform"
       /\ Len(transforms[a]) = Len(Accepted(a, "add_transform"))
       /\ (frame.app = a /\ SetupBody[frame.pc] = "add_transform") =>
             "recommonmark_config" \in DOMAIN config[a]

\* C7 witness: on one handle the host has rejected add_config_value in one
\* invocation and has accepted both calls in another.
C7_Witness ==
    \E a \in Apps :
       /\ \E j \in 1..Len(log[a]) : log[a][j].op = "add_config_value" /\ ~log[a][j].ok
       /\ transforms[a] # << >>

\* C8: the calls setup issues do not depend on the host state: in every
\* invocation, whether or not the handle already held the configuration value
\* when it began, the calls issued are the same two calls in the same order,
\* up to the statement reached (or the call the host rejected); an invocation
\* on a handle that already holds the registration issues add_config_value
\* again.
C8_SetupIgnoresHostState ==
    \A c \in 1..Len(outcomes) :
       LET es == CallsOf(outcomes[c].app, c) IN
       /\ Len(es) <= 2
       /\ \A j \in 1..Len(es) :
             /\ es[j].op = (IF j = 1 THEN "add_config_value" ELSE "add_transform")
             /\ es[j].args = (IF j = 1
                              THEN << "recommonmark_config",
                                      [auto_toc_tree_section |-> "Contents",
                                       enable_eval_rst |-> TRUE], TRUE >>
                              ELSE << [kind |-> "class",
                                       name |-> "recommonmark.transform.AutoStructify"] >>)
             /\ j < Len(es) => es[j].ok
       /\ outcomes[c].result = "running" => Len(es) = frame.pc - 1
       /\ outcomes[c].result = "returned" => (Len(es) = 2 /\ es[2].ok)
       /\ outcomes[c].result = "raised" => (Len(es) >= 1 /\ ~es[Len(es)].ok)

\* C8 witness: a second invocation on a handle that already held the
\* configuration value has issued both calls again and has returned.
C8_Witness ==
    \E c \in 1..Len(outcomes) :
       /\ outcomes[c].prior
       /\ outcomes[c].result = "returned"
       /\ Len(Accepted(outcomes[c].app, "add_config_value")) >= 2
       /\ Len(transforms[outcomes[c].app]) >= 2

====
